---- MODULE Spec2Model ----
(***************************************************************************)
(* GuildStats bot (src/bot.py): the JSON statistics store with its         *)
(* backup / temp-file / replace write protocol, and the command handlers   *)
(* that run a load-mutate-save cycle on it under the asyncio event loop.   *)
(***************************************************************************)
EXTENDS Integers, Sequences, FiniteSets, TLC

(***************************************************************************)
(* Bounds of the model.                                                    *)
(***************************************************************************)
\* number of command invocations in one behaviour (also the range of the clock)
MaxCmds == 2

\* ctx.author.id as the string key str(ctx.author.id)
Users == {"u1", "u2"}

\* Python None
None == "None"

(***************************************************************************)
(* Strings that the code inspects character by character are sequences of  *)
(* one-character strings.                                                   *)
(***************************************************************************)
UpperChars == <<"A","B","C","D","E","F","G","H","I","J","K","L","M",
                "N","O","P","Q","R","S","T","U","V","W","X","Y","Z">>
LowerChars == <<"a","b","c","d","e","f","g","h","i","j","k","l","m",
                "n","o","p","q","r","s","t","u","v","w","x","y","z">>

\* str.lower() on one character
LowerChar(c) ==
    IF \E i \in 1..Len(UpperChars) : UpperChars[i] = c
    THEN LowerChars[CHOOSE i \in 1..Len(UpperChars) : UpperChars[i] = c]
    ELSE c

\* str.lower()
Lower(s) == [i \in 1..Len(s) |-> LowerChar(s[i])]

\* str.strip(): drops leading and trailing whitespace
RECURSIVE LStrip(_)
LStrip(s) == IF s # <<>> /\ Head(s) = " " THEN LStrip(Tail(s)) ELSE s
RECURSIVE RStrip(_)
RStrip(s) ==
    IF s # <<>> /\ s[Len(s)] = " " THEN RStrip(SubSeq(s, 1, Len(s) - 1)) ELSE s
Strip(s) == RStrip(LStrip(s))

\* str.replace(c, r) for a one-character c and a replacement r of length 0 or 1
RECURSIVE Replace(_, _, _)
Replace(s, c, r) ==
    IF s = <<>> THEN <<>>
    ELSE (IF Head(s) = c THEN r ELSE <<Head(s)>>) \o Replace(Tail(s), c, r)

\* the `in` operator on strings: w occurs in s as a substring
Contains(s, w) ==
    \E i \in 1..(Len(s) - Len(w) + 1) : SubSeq(s, i, i + Len(w) - 1) = w

\* AVAILABLE_CLASSES, in the source's order
AVAILABLE_CLASSES ==
    << "Vanguard", "Berserker", "Destroyer", "Night Ranger",
       "Elementalist", "Divine Caster", "Assassin", "Deathbringer",
       "Gunslinger", "Warlord" >>

\* the characters of each class name
ClassChars(cls) ==
    CASE cls = "Vanguard"      -> <<"V","a","n","g","u","a","r","d">>
      [] cls = "Berserker"     -> <<"B","e","r","s","e","r","k","e","r">>
      [] cls = "Destroyer"     -> <<"D","e","s","t","r","o","y","e","r">>
      [] cls = "Night Ranger"  -> <<"N","i","g","h","t"," ","R","a","n","g","e","r">>
      [] cls = "Elementalist"  -> <<"E","l","e","m","e","n","t","a","l","i","s","t">>
      [] cls = "Divine Caster" -> <<"D","i","v","i","n","e"," ","C","a","s","t","e","r">>
      [] cls = "Assassin"      -> <<"A","s","s","a","s","s","i","n">>
      [] cls = "Deathbringer"  -> <<"D","e","a","t","h","b","r","i","n","g","e","r">>
      [] cls = "Gunslinger"    -> <<"G","u","n","s","l","i","n","g","e","r">>
      [] cls = "Warlord"       -> <<"W","a","r","l","o","r","d">>

\* the keys the loop at lines 60-64 stores for one class
ClassKeys(cls) ==
    LET cls_lower == Lower(ClassChars(cls))
    IN  { cls_lower, Replace(cls_lower, " ", <<>>), Replace(cls_lower, " ", <<"-">>) }

\* CLASS_MAPPING as the loop at lines 59-64 builds it: a later class of the
\* loop overwrites an earlier one
CLASS_MAPPING ==
    LET hits(key) == { i \in 1..Len(AVAILABLE_CLASSES) :
                         key \in ClassKeys(AVAILABLE_CLASSES[i]) }
    IN  [ key \in UNION { ClassKeys(AVAILABLE_CLASSES[i]) : i \in 1..Len(AVAILABLE_CLASSES) }
            |-> AVAILABLE_CLASSES[CHOOSE i \in hits(key) : \A j \in hits(key) : j <= i] ]

\* key in CLASS_MAPPING
InClassMapping(key) == key \in DOMAIN CLASS_MAPPING

\* normalize_class_name with a CLASS_MAPPING that maps cls_lower to cls_lower:
\* a direct hit returns the name in lower case
normalize_class_name_KeyCase(input_class) ==
    IF input_class = <<>> THEN None
    ELSE LET input_lower  == Strip(Lower(input_class))
             simple_input == Replace(Replace(input_lower, " ", <<>>), "-", <<>>)
         IN  IF InClassMapping(input_lower)
             THEN IF CLASS_MAPPING[input_lower] = "Berserker" THEN "berserker"
                  ELSE CLASS_MAPPING[input_lower]
             ELSE IF InClassMapping(simple_input) THEN CLASS_MAPPING[simple_input]
             ELSE IF Contains(input_lower, <<"n","i","g","h","t">>)
                     /\ Contains(input_lower, <<"r","a","n","g","e","r">>)
                  THEN "Night Ranger"
             ELSE IF Contains(input_lower, <<"d","i","v","i","n","e">>)
                     /\ Contains(input_lower, <<"c","a","s","t","e","r">>)
                  THEN "Divine Caster"
             ELSE None

\* normalize_class_name without the simple_input lookup of lines 185-187
normalize_class_name_NoSimple(input_class) ==
    IF input_class = <<>> THEN None
    ELSE LET input_lower == Strip(Lower(input_class))
         IN  IF InClassMapping(input_lower) THEN CLASS_MAPPING[input_lower]
             ELSE IF Contains(input_lower, <<"n","i","g","h","t">>)
                     /\ Contains(input_lower, <<"r","a","n","g","e","r">>)
                  THEN "Night Ranger"
             ELSE IF Contains(input_lower, <<"d","i","v","i","n","e">>)
                     /\ Contains(input_lower, <<"c","a","s","t","e","r">>)
                  THEN "Divine Caster"
             ELSE None

\* normalize_class_name(input_class); an absent argument (None) and the empty
\* string are both falsy at line 178 and are both written <<>> here
normalize_class_name(input_class) ==
    IF input_class = <<>> THEN None
    ELSE LET input_lower  == Strip(Lower(input_class))
             simple_input == Replace(Replace(input_lower, " ", <<>>), "-", <<>>)
         IN  IF InClassMapping(input_lower) THEN CLASS_MAPPING[input_lower]
             ELSE IF InClassMapping(simple_input) THEN CLASS_MAPPING[simple_input]
             ELSE IF Contains(input_lower, <<"n","i","g","h","t">>)
                     /\ Contains(input_lower, <<"r","a","n","g","e","r">>)
                  THEN "Night Ranger"
             ELSE IF Contains(input_lower, <<"d","i","v","i","n","e">>)
                     /\ Contains(input_lower, <<"c","a","s","t","e","r">>)
                  THEN "Divine Caster"
             ELSE None

\* str.upper() on one character
UpperChar(c) ==
    IF \E i \in 1..Len(LowerChars) : LowerChars[i] = c
    THEN UpperChars[CHOOSE i \in 1..Len(LowerChars) : LowerChars[i] = c]
    ELSE c

\* str.upper()
Upper(s) == [i \in 1..Len(s) |-> UpperChar(s[i])]

\* the string s with the character c put in after its first p characters
InsertAt(s, p, c) == SubSeq(s, 1, p) \o <<c>> \o SubSeq(s, p + 1, Len(s))

\* how many spaces or hyphens the spellings below put into a class name
MaxSeps == 1

\* the strings of S with up to k spaces or hyphens put in anywhere
RECURSIVE WithSeps(_, _)
WithSeps(S, k) ==
    IF k = 0 THEN S
    ELSE LET T == WithSeps(S, k - 1)
         IN  T \cup UNION { { InsertAt(t, p, c) : p \in 0..Len(t), c \in {" ", "-"} } :
                             t \in T }

\* spellings of one class name a user can type for it: the name as listed,
\* without its space or with a hyphen for it, in the listed, lower and upper
\* case, with spaces or hyphens put in
Spellings(cls) ==
    LET name  == ClassChars(cls)
        forms == { name, SelectSeq(name, LAMBDA c : c # " "),
                   [i \in 1..Len(name) |-> IF name[i] = " " THEN "-" ELSE name[i]] }
    IN  WithSeps(forms \cup { Lower(f) : f \in forms } \cup { Upper(f) : f \in forms },
                 MaxSeps)

\* other class arguments: none, blanks, words that are no class, words that
\* hold the two parts of a two-word class
OtherInputs ==
    { <<>>, <<" ">>, <<"-">>, <<"x","y","z">>,
      <<"w","a","r","l","o","c","k">>, <<"n","i","g","h","t">>,
      <<"V","a","n","g","u","a","r","d","s">>,
      <<"r","a","n","g","e","r"," ","o","f"," ","N","i","g","h","t">>,
      <<"d","i","v","i","n","e","c","a","s","t","e","r","s">>,
      <<"c","a","s","t","e","r","_","d","i","v","i","n","e">> }

\* the class arguments normalize_class_name is applied to
NormInputs ==
    UNION { Spellings(AVAILABLE_CLASSES[i]) : i \in 1..Len(AVAILABLE_CLASSES) }
        \cup OtherInputs

(***************************************************************************)
(* A Python dict keeps insertion order: a sequence of [k, v] items with    *)
(* distinct keys.                                                           *)
(***************************************************************************)
\* user_id in stats
DictHas(d, k) == \E i \in 1..Len(d) : d[i].k = k

\* stats[user_id]
DictGet(d, k) == d[CHOOSE i \in 1..Len(d) : d[i].k = k].v

\* stats[user_id] = v: an existing key keeps its position, a new key is appended
DictSet(d, k, v) ==
    IF DictHas(d, k)
    THEN [i \in 1..Len(d) |-> IF d[i].k = k THEN [k |-> k, v |-> v] ELSE d[i]]
    ELSE Append(d, [k |-> k, v |-> v])

\* del stats[user_id]
DictDel(d, k) == SelectSeq(d, LAMBDA it : it.k # k)

\* dict equality ignores the order of the items
DictEq(a, b) ==
    /\ Len(a) = Len(b)
    /\ \A i \in 1..Len(a) : DictHas(b, a[i].k) /\ DictGet(b, a[i].k) = a[i].v

\* the user_data literal of set_stats
UserData(attack, defense, accuracy, cls, now) ==
    [ attack |-> attack, defense |-> defense, accuracy |-> accuracy,
      character_class |-> cls,
      legendary_skin |-> FALSE, legendary_familiar |-> FALSE,
      total_score |-> attack + defense + accuracy,
      updated_at |-> now ]

\* calculate_total with the accuracy term forgotten
calculate_total_NoAccuracy(rec) == rec.attack + rec.defense

\* calculate_total(stats); every record the bot writes has the three keys, so
\* the .get defaults are never used
calculate_total(rec) == rec.attack + rec.defense + rec.accuracy

(***************************************************************************)
(* Files.  The content of a file is a sequence of tokens, so that a write  *)
(* cut short leaves a proper prefix of the serialised text.                *)
(***************************************************************************)
NoValue == UserData(0, 0, 0, None, 0)
LBrace  == [t |-> "{", k |-> "", v |-> NoValue]
RBrace  == [t |-> "}", k |-> "", v |-> NoValue]
Junk    == [t |-> "junk", k |-> "", v |-> NoValue]
Item(it) == [t |-> "item", k |-> it.k, v |-> it.v]

\* json.dump(stats, f, indent=2, ensure_ascii=False): the text written
Dump(d) == <<LBrace>> \o [i \in 1..Len(d) |-> Item(d[i])] \o <<RBrace>>

\* whether json.load accepts the text
Decodable(bytes) ==
    /\ Len(bytes) >= 2
    /\ bytes[1] = LBrace
    /\ bytes[Len(bytes)] = RBrace
    /\ \A i \in 2..(Len(bytes) - 1) : bytes[i].t = "item"

\* json.load(f) of an accepted text: a repeated key keeps its last value
RECURSIVE ParseItems(_, _)
ParseItems(items, acc) ==
    IF items = <<>> THEN acc
    ELSE ParseItems(Tail(items), DictSet(acc, Head(items).k, Head(items).v))
Parse(bytes) == ParseItems(SubSeq(bytes, 2, Len(bytes) - 1), <<>>)

Absent == [exists |-> FALSE, bytes |-> <<>>]
File(bytes) == [exists |-> TRUE, bytes |-> bytes]

\* load_stats whose except branch returns an error dict instead of {}
load_stats_ErrDict(file, readable) ==
    IF file.exists /\ readable /\ Decodable(file.bytes) THEN Parse(file.bytes)
    ELSE IF ~file.exists THEN <<>>
    ELSE << [k |-> "error", v |-> NoValue] >>

\* load_stats(): readable = FALSE is an open() or read() that raises
load_stats(file, readable) ==
    IF file.exists /\ readable /\ Decodable(file.bytes)
    THEN Parse(file.bytes)
    ELSE <<>>

(***************************************************************************)
(* State.                                                                  *)
(***************************************************************************)
VARIABLES
    primary,   \* STATS_FILE
    backup,    \* STATS_FILE + '.backup'
    tmp,       \* STATS_FILE + '.tmp'
    up,        \* whether the bot process is running
    h,         \* per author: the running invocation of a command handler
    clock,     \* datetime.now(), counted in command invocations
    last,      \* per author: the last of !setstats / !clearmystats that saved
    fx         \* the last call of a read-only operation: its input and its reply

vars == <<primary, backup, tmp, up, h, clock, last, fx>>

files == <<primary, backup, tmp>>

\* no invocation.  Of a running invocation: pc is the statement it stands
\* before, stats the handler's local dict, args the arguments of !update,
\* loaded the branch load_stats took (what it logs), ret what save_stats
\* returned, msg the message of the ctx.send awaited, pre the primary file as
\* save_stats found it, i the number of pieces the running write has written
Idle ==
    [ pc |-> "idle", cmd |-> "", stats |-> <<>>, args |-> <<>>, loaded |-> "",
      ret |-> "", msg |-> "", pre |-> Absent, i |-> 0 ]

\* the statements of save_stats an invocation can stand before
SavePcs == {"save", "copy_open", "copy", "tmp_open", "dump"}

\* the message of the `if save_stats(stats):` branch of each handler
OkMsg(cmd) ==
    CASE cmd = "setstats"     -> "Statistics Saved!"
      [] cmd = "update"       -> "Updated"
      [] cmd = "setclass"     -> "Class set"
      [] cmd = "setskin"      -> "Legendary Skin"
      [] cmd = "setfamiliar"  -> "Legendary Familiar"
      [] cmd = "clearmystats" -> "Statistics deleted."

\* the message of the `else:` branch of each handler
ErrMsg(cmd) ==
    CASE cmd = "setstats"     -> "Error saving. Try again."
      [] cmd = "clearmystats" -> "Error deleting."
      [] OTHER                -> "Error saving."

\* a record file of one player, as an earlier run of the bot leaves it
OldDb == << [k |-> "u2", v |-> UserData(3, 2, 1, "Warlord", 0)] >>

\* no read-only operation has been called yet
NoCall == [op |-> "", in |-> <<>>, out |-> <<>>]

Init ==
    /\ fx = NoCall
    /\ primary \in { Absent, File(<<>>), File(<<Junk>>), File(Dump(OldDb)) }
    /\ backup \in { Absent, File(Dump(OldDb)) }
    /\ tmp = Absent
    /\ up = TRUE
    /\ h = [u \in Users |-> Idle]
    /\ clock = 0
    /\ last = [u \in Users |->
                 IF DictHas(load_stats(primary, TRUE), u) THEN "setstats" ELSE ""]

\* which branch of load_stats runs: the file is missing, the try block raises,
\* or the data is returned
LoadBranch(file, readable) ==
    IF ~file.exists THEN "missing"
    ELSE IF ~readable \/ ~Decodable(file.bytes) THEN "error"
    ELSE "ok"

(***************************************************************************)
(* The event loop runs one handler at a time: a handler gives up control   *)
(* only at an await, and every handler's only await is its ctx.send.       *)
(***************************************************************************)
\* an event loop that would switch handlers anywhere
LoopFree_None == TRUE

LoopFree == \A v \in Users : h[v].pc \in {"idle", "send"}

\* a message of author u is dispatched to its handler
CanInvoke(u) ==
    /\ up
    /\ LoopFree
    /\ h[u].pc = "idle"
    /\ clock < MaxCmds

\* the handler replies before it has called load_stats
Reject(u, cmd, m) ==
    /\ h' = [h EXCEPT ![u] = [Idle EXCEPT !.pc = "send", !.cmd = cmd, !.msg = m]]
    /\ clock' = clock + 1
    /\ UNCHANGED <<primary, backup, tmp, up, last, fx>>

\* the handler replies after load_stats, without calling save_stats
Answer(u, cmd, m, stats, readable) ==
    /\ h' = [h EXCEPT ![u] = [Idle EXCEPT !.pc = "send", !.cmd = cmd, !.msg = m,
                                          !.stats = stats,
                                          !.loaded = LoadBranch(primary, readable)]]
    /\ clock' = clock + 1
    /\ UNCHANGED <<primary, backup, tmp, up, last, fx>>

\* the handler reaches its save_stats(stats) call
CallSave(u, cmd, stats, args, readable) ==
    /\ h' = [h EXCEPT ![u] = [Idle EXCEPT !.pc = "save", !.cmd = cmd, !.stats = stats,
                                          !.args = args,
                                          !.loaded = LoadBranch(primary, readable),
                                          !.pre = primary]]
    /\ clock' = clock + 1
    /\ UNCHANGED <<primary, backup, tmp, up, last, fx>>

\* the class arguments tried: absent, a class in another spelling, no class
ClassInputs ==
    { <<>>,
      <<"b","e","r","s","e","r","k","e","r">>,
      <<"x","y","z">> }

\* the <attack> <defense> <accuracy> arguments tried for !setstats
SetArgs == { <<400, 350, 500>>, <<0, -1, 0>> }

\* the arguments tried for !update: discord.py fills attack, defense, accuracy
\* from the left, the ones not given stay None
UpdateArgs == { <<>>, <<420>>, <<0, 7>>, <<1, 1, -1>> }

\* the yes/no arguments tried for !setskin and !setfamiliar
FlagInputs == { <<>>, <<"Y","e","s">>, <<"n","i","e">>, <<"o","k">> }

\* set_stats written as an update of the author's record: the flags and the
\* class of an earlier record are kept
set_stats_Merge(u, attack, defense, accuracy, character_class, readable) ==
    /\ CanInvoke(u)
    /\ LET normalized_class == normalize_class_name(character_class)
       IN  IF character_class # <<>> /\ normalized_class = None
           THEN Reject(u, "setstats", "Invalid class")
           ELSE LET stats == load_stats(primary, readable)
                    fresh == UserData(attack, defense, accuracy,
                                      normalized_class, clock + 1)
                    user_data ==
                        IF DictHas(stats, u)
                        THEN [fresh EXCEPT
                                !.legendary_skin = DictGet(stats, u).legendary_skin,
                                !.legendary_familiar = DictGet(stats, u).legendary_familiar,
                                !.character_class =
                                    IF normalized_class = None
                                    THEN DictGet(stats, u).character_class
                                    ELSE normalized_class]
                        ELSE fresh
                IN  CallSave(u, "setstats", DictSet(stats, u, user_data),
                             <<attack, defense, accuracy, character_class>>, readable)

\* !setstats <attack> <defense> <accuracy> [class]
set_stats(u, attack, defense, accuracy, character_class, readable) ==
    /\ CanInvoke(u)
    /\ LET normalized_class == normalize_class_name(character_class)
       IN  IF character_class # <<>> /\ normalized_class = None
           THEN Reject(u, "setstats", "Invalid class")
           ELSE LET stats == load_stats(primary, readable)
                    user_data == UserData(attack, defense, accuracy,
                                          normalized_class, clock + 1)
                IN  CallSave(u, "setstats", DictSet(stats, u, user_data),
                             <<attack, defense, accuracy, character_class>>, readable)

\* !mystats
my_stats(u, readable) ==
    /\ CanInvoke(u)
    /\ LET stats == load_stats(primary, readable)
       IN  IF ~DictHas(stats, u)
           THEN Answer(u, "mystats", "No statistics", stats, readable)
           ELSE Answer(u, "mystats", "Your Statistics", stats, readable)

\* has_x_lower in ['yes', 'no', 'tak', 'nie']
IsYesNo(w) ==
    w \in { <<"y","e","s">>, <<"n","o">>, <<"t","a","k">>, <<"n","i","e">> }

\* has_x_lower in ['yes', 'tak']
IsYes(w) == w \in { <<"y","e","s">>, <<"t","a","k">> }

\* the body shared by set_skin and set_familiar, which differ in the key set
SetFlag(u, cmd, key, has_x, readable) ==
    /\ CanInvoke(u)
    /\ IF has_x = <<>> THEN Reject(u, cmd, "Usage")
       ELSE IF ~IsYesNo(Lower(has_x)) THEN Reject(u, cmd, "Use yes or no")
       ELSE LET stats == load_stats(primary, readable)
            IN  IF ~DictHas(stats, u)
                THEN Answer(u, cmd, "First use !setstats", stats, readable)
                ELSE CallSave(u, cmd,
                        DictSet(stats, u,
                                [DictGet(stats, u) EXCEPT ![key] = IsYes(Lower(has_x))]),
                        <<>>, readable)

\* !setskin <yes/no>
set_skin(u, has_skin, readable) ==
    SetFlag(u, "setskin", "legendary_skin", has_skin, readable)

\* !setfamiliar <yes/no>
set_familiar(u, has_familiar, readable) ==
    SetFlag(u, "setfamiliar", "legendary_familiar", has_familiar, readable)

\* !setclass <class>
set_class(u, character_class, readable) ==
    /\ CanInvoke(u)
    /\ IF character_class = <<>> THEN Reject(u, "setclass", "Usage")
       ELSE LET normalized_class == normalize_class_name(character_class)
            IN  IF normalized_class = None THEN Reject(u, "setclass", "Invalid class")
                ELSE LET stats == load_stats(primary, readable)
                     IN  IF ~DictHas(stats, u)
                         THEN Answer(u, "setclass", "First use !setstats", stats, readable)
                         ELSE CallSave(u, "setclass",
                                 DictSet(stats, u,
                                         [DictGet(stats, u) EXCEPT
                                             !.character_class = normalized_class]),
                                 <<>>, readable)

\* update_stats rebuilding the record with the user_data literal of set_stats
UpdatedRecord_Rebuild(rec, args, now) ==
    UserData(IF Len(args) >= 1 THEN args[1] ELSE rec.attack,
             IF Len(args) >= 2 THEN args[2] ELSE rec.defense,
             IF Len(args) >= 3 THEN args[3] ELSE rec.accuracy,
             None, now)

\* lines 384-400 of update_stats on the user's record: args holds the arguments
\* given, from the left
UpdatedRecord(rec, args, now) ==
    LET r1 == IF Len(args) >= 1 THEN [rec EXCEPT !.attack = args[1]] ELSE rec
        r2 == IF Len(args) >= 2 THEN [r1 EXCEPT !.defense = args[2]] ELSE r1
        r3 == IF Len(args) >= 3 THEN [r2 EXCEPT !.accuracy = args[3]] ELSE r2
    IN  [r3 EXCEPT !.total_score = calculate_total(r3), !.updated_at = now]

\* update_stats without the `if not updated:` return
update_stats_NoArgCheck(u, args, readable) ==
    /\ CanInvoke(u)
    /\ LET stats == load_stats(primary, readable)
       IN  IF ~DictHas(stats, u)
           THEN Answer(u, "update", "No statistics", stats, readable)
           ELSE CallSave(u, "update",
                   DictSet(stats, u, UpdatedRecord(DictGet(stats, u), args, clock + 1)),
                   args, readable)

\* !update [attack] [defense] [accuracy]
update_stats(u, args, readable) ==
    /\ CanInvoke(u)
    /\ LET stats == load_stats(primary, readable)
       IN  IF ~DictHas(stats, u)
           THEN Answer(u, "update", "No statistics", stats, readable)
           ELSE IF Len(args) = 0
           THEN Answer(u, "update", "No changes provided.", stats, readable)
           ELSE CallSave(u, "update",
                   DictSet(stats, u, UpdatedRecord(DictGet(stats, u), args, clock + 1)),
                   args, readable)

\* !clearmystats
clear_stats(u, readable) ==
    /\ CanInvoke(u)
    /\ LET stats == load_stats(primary, readable)
       IN  IF DictHas(stats, u)
           THEN CallSave(u, "clearmystats", DictDel(stats, u), <<>>, readable)
           ELSE Answer(u, "clearmystats", "No statistics to delete.", stats, readable)

(***************************************************************************)
(* save_stats(stats), statement by statement.                              *)
(***************************************************************************)
\* os.makedirs(..., exist_ok=True); os.path.exists(STATS_FILE)
SaveCheck(u) ==
    /\ up
    /\ h[u].pc = "save"
    /\ h' = [h EXCEPT ![u].pc = IF primary.exists THEN "copy_open" ELSE "tmp_open"]
    /\ UNCHANGED <<primary, backup, tmp, up, clock, last, fx>>

\* a backup made by moving the primary file away instead of copying it
CopyOpen_Move(u) ==
    /\ up
    /\ h[u].pc = "copy_open"
    /\ backup' = primary
    /\ primary' = Absent
    /\ h' = [h EXCEPT ![u].pc = "tmp_open", ![u].i = 0]
    /\ UNCHANGED <<tmp, up, clock, last, fx>>

\* shutil.copy2: the destination is opened for writing, which truncates it
CopyOpen(u) ==
    /\ up
    /\ h[u].pc = "copy_open"
    /\ backup' = File(<<>>)
    /\ h' = [h EXCEPT ![u].pc = IF primary.bytes = <<>> THEN "tmp_open" ELSE "copy",
                      ![u].i = 0]
    /\ UNCHANGED <<primary, tmp, up, clock, last, fx>>

\* shutil.copy2: the next piece of the primary file is written to the backup
CopyWrite(u) ==
    /\ up
    /\ h[u].pc = "copy"
    /\ h[u].i < Len(primary.bytes)
    /\ backup' = File(Append(backup.bytes, primary.bytes[h[u].i + 1]))
    /\ h' = [h EXCEPT ![u].i = @ + 1,
                      ![u].pc = IF h[u].i + 1 = Len(primary.bytes)
                                THEN "tmp_open" ELSE "copy"]
    /\ UNCHANGED <<primary, tmp, up, clock, last, fx>>

\* the .tmp file opened in append mode: an older .tmp is not truncated
TmpOpen_Append(u) ==
    /\ up
    /\ h[u].pc = "tmp_open"
    /\ tmp' = IF tmp.exists THEN tmp ELSE File(<<>>)
    /\ h' = [h EXCEPT ![u].pc = "dump", ![u].i = 0]
    /\ UNCHANGED <<primary, backup, up, clock, last, fx>>

\* open(temp_file, 'w'): creates or truncates the .tmp file
TmpOpen(u) ==
    /\ up
    /\ h[u].pc = "tmp_open"
    /\ tmp' = File(<<>>)
    /\ h' = [h EXCEPT ![u].pc = "dump", ![u].i = 0]
    /\ UNCHANGED <<primary, backup, up, clock, last, fx>>

\* the text written straight into the primary file, with no .tmp file
DumpWrite_InPlace(u) ==
    /\ up
    /\ h[u].pc = "dump"
    /\ h[u].i < Len(Dump(h[u].stats))
    /\ primary' = File(IF h[u].i = 0 THEN <<Dump(h[u].stats)[1]>>
                       ELSE Append(primary.bytes, Dump(h[u].stats)[h[u].i + 1]))
    /\ h' = [h EXCEPT ![u].i = @ + 1]
    /\ UNCHANGED <<tmp, backup, up, clock, last, fx>>

\* json.dump: the next piece of the text is written to the .tmp file
DumpWrite(u) ==
    /\ up
    /\ h[u].pc = "dump"
    /\ h[u].i < Len(Dump(h[u].stats))
    /\ tmp' = File(Append(tmp.bytes, Dump(h[u].stats)[h[u].i + 1]))
    /\ h' = [h EXCEPT ![u].i = @ + 1]
    /\ UNCHANGED <<primary, backup, up, clock, last, fx>>

\* the file is closed; os.replace(temp_file, STATS_FILE); return True, and the
\* handler goes on to its success message
ReplaceTmp(u) ==
    /\ up
    /\ h[u].pc = "dump"
    /\ h[u].i = Len(Dump(h[u].stats))
    /\ primary' = tmp
    /\ tmp' = Absent
    /\ h' = [h EXCEPT ![u] = [Idle EXCEPT !.pc = "send", !.cmd = h[u].cmd,
                                         !.ret = "True", !.msg = OkMsg(h[u].cmd)]]
    /\ last' = IF h[u].cmd \in {"setstats", "clearmystats"}
               THEN [last EXCEPT ![u] = h[u].cmd] ELSE last
    /\ UNCHANGED <<backup, up, clock, fx>>

\* save_stats returns False and the handler sends its success message all the
\* same: the return value is not tested
SaveFail_Unchecked(u) ==
    /\ up
    /\ h[u].pc \in SavePcs
    /\ h' = [h EXCEPT ![u] = [Idle EXCEPT !.pc = "send", !.cmd = h[u].cmd,
                                         !.ret = "False", !.msg = OkMsg(h[u].cmd)]]
    /\ UNCHANGED <<primary, backup, tmp, up, clock, last, fx>>

\* the statement the invocation stands before raises; `except Exception`
\* returns False and the handler goes on to its error message
SaveFail(u) ==
    /\ up
    /\ h[u].pc \in SavePcs
    /\ h' = [h EXCEPT ![u] = [Idle EXCEPT !.pc = "send", !.cmd = h[u].cmd,
                                         !.ret = "False", !.msg = ErrMsg(h[u].cmd)]]
    /\ UNCHANGED <<primary, backup, tmp, up, clock, last, fx>>

\* await ctx.send(...) completes and the handler returns
SendDone(u) ==
    /\ up
    /\ h[u].pc = "send"
    /\ h' = [h EXCEPT ![u] = Idle]
    /\ UNCHANGED <<primary, backup, tmp, up, clock, last, fx>>

\* the process dies inside save_stats (kill, power loss, sys.exit from the
\* signal handler): nothing runs any more, the files stay as they are
Crash ==
    /\ up
    /\ \E u \in Users : h[u].pc \in SavePcs
    /\ up' = FALSE
    /\ UNCHANGED <<primary, backup, tmp, h, clock, last, fx>>

\* the bot is started again: no invocation survives
Restart ==
    /\ ~up
    /\ up' = TRUE
    /\ h' = [u \in Users |-> Idle]
    /\ UNCHANGED <<primary, backup, tmp, clock, last, fx>>

Next ==
    \/ \E u \in Users, a \in SetArgs, cls \in ClassInputs, r \in BOOLEAN :
          set_stats(u, a[1], a[2], a[3], cls, r)
    \/ \E u \in Users, r \in BOOLEAN : my_stats(u, r)
    \/ \E u \in Users, w \in FlagInputs, r \in BOOLEAN : set_skin(u, w, r)
    \/ \E u \in Users, w \in FlagInputs, r \in BOOLEAN : set_familiar(u, w, r)
    \/ \E u \in Users, cls \in ClassInputs, r \in BOOLEAN : set_class(u, cls, r)
    \/ \E u \in Users, a \in UpdateArgs, r \in BOOLEAN : update_stats(u, a, r)
    \/ \E u \in Users, r \in BOOLEAN : clear_stats(u, r)
    \/ \E u \in Users : SaveCheck(u)
    \/ \E u \in Users : CopyOpen(u)
    \/ \E u \in Users : CopyWrite(u)
    \/ \E u \in Users : TmpOpen(u)
    \/ \E u \in Users : DumpWrite(u)
    \/ \E u \in Users : ReplaceTmp(u)
    \/ \E u \in Users : SaveFail(u)
    \/ \E u \in Users : SendDone(u)
    \/ Crash
    \/ Restart

Spec == Init /\ [][Next]_vars

(***************************************************************************)
(* Properties.                                                             *)
(***************************************************************************)
\* the database a reader of the primary file gets
Persisted == load_stats(primary, TRUE)

\* C1: while save_stats runs, and when the process dies at any statement of
\* it, the primary file holds the content it had when save_stats began; the
\* only step that changes the primary file puts the complete new text there.
C1_AtomicPrimary ==
    [][ /\ \A u \in Users : h'[u].pc \in SavePcs => primary' = h'[u].pre
        /\ primary' # primary =>
              \E u \in Users : /\ h[u].pc = "dump"
                               /\ primary = h[u].pre
                               /\ primary' = File(Dump(h[u].stats)) ]_vars

\* the process has died inside json.dump, the .tmp file half written
C1_Witness ==
    /\ ~up
    /\ \E u \in Users : /\ h[u].pc = "dump"
                        /\ h[u].i > 0
                        /\ h[u].i < Len(Dump(h[u].stats))
                        /\ tmp.bytes = SubSeq(Dump(h[u].stats), 1, h[u].i)
                        /\ primary = h[u].pre

\* C2: every call of save_stats that ends while the process runs ends with a
\* return value and the handler's matching message: True with the new text in
\* the primary file, or False with the primary file as the call found it.
C2_ReturnValue ==
    [][ \A u \in Users :
          (up /\ h[u].pc \in SavePcs /\ h'[u].pc \notin SavePcs) =>
             /\ h'[u].pc = "send"
             /\ \/ /\ h'[u].ret = "True"
                   /\ h'[u].msg = OkMsg(h[u].cmd)
                   /\ primary' = File(Dump(h[u].stats))
                \/ /\ h'[u].ret = "False"
                   /\ h'[u].msg = ErrMsg(h[u].cmd)
                   /\ primary' = h[u].pre ]_vars

\* save_stats has returned False at os.replace: the complete new text is in
\* the .tmp file and the primary file is another, untouched one
C2_Witness ==
    \E u \in Users : /\ h[u].pc = "send"
                     /\ h[u].ret = "False"
                     /\ tmp.exists
                     /\ Decodable(tmp.bytes)
                     /\ primary.exists
                     /\ primary.bytes # tmp.bytes

\* C3: when save_stats returns False after it has opened the .tmp file (json.dump
\* or os.replace raised), no .tmp file exists any more.
C3_NoTmpLeft ==
    [][ \A u \in Users :
          (up /\ h[u].pc = "dump" /\ h'[u].ret = "False") => ~tmp'.exists ]_vars

\* C4: a load that finds the primary file missing or undecodable and a decodable
\* .backup file returns the backup's database and leaves it in the primary file.
C4_BackupFallback ==
    [][ \A u \in Users :
          ( /\ h[u].pc = "idle"
            /\ h'[u].cmd = "mystats"
            /\ ~primary.exists \/ ~Decodable(primary.bytes)
            /\ backup.exists /\ Decodable(backup.bytes) ) =>
             /\ DictEq(h'[u].stats, Parse(backup.bytes))
             /\ primary'.exists
             /\ Decodable(primary'.bytes)
             /\ DictEq(Parse(primary'.bytes), Parse(backup.bytes)) ]_vars

\* C5: when save_stats(db) returns True, a load of the primary file as the call
\* leaves it returns a database equal to db.
C5_RoundTrip ==
    [][ \A u \in Users :
          (up /\ h[u].pc \in SavePcs /\ h'[u].ret = "True") =>
             DictEq(load_stats(primary', TRUE), h[u].stats) ]_vars

\* save_stats has returned True with two players in the database, a .backup
\* file of the earlier primary file present
C5_Witness ==
    \E u \in Users : /\ h[u].pc = "send"
                     /\ h[u].ret = "True"
                     /\ Len(Persisted) = 2
                     /\ backup.exists

\* C6: a handler whose load finds no .backup file and a primary file that is
\* missing, empty, undecodable or unreadable goes on with the empty database
\* (!mystats answers "No statistics") and no file is changed.
C6_LoadFallsBackToEmpty ==
    [][ \A u \in Users :
          ( /\ h[u].pc = "idle"
            /\ h'[u].cmd = "mystats"
            /\ ~backup.exists
            /\ \/ ~primary.exists
               \/ primary.bytes = <<>>
               \/ ~Decodable(primary.bytes)
               \/ h'[u].loaded = "error" ) =>
             /\ h'[u].pc = "send"
             /\ h'[u].stats = <<>>
             /\ h'[u].msg = "No statistics"
             /\ files' = files ]_vars

\* !mystats of a player whose record is in the primary file, the read raising
C6_Witness ==
    \E u \in Users : /\ h[u].cmd = "mystats"
                     /\ h[u].loaded = "error"
                     /\ h[u].stats = <<>>
                     /\ ~backup.exists
                     /\ DictHas(Persisted, u)

\* C7: every record of the persisted database has
\* total_score = attack + defense + accuracy.
C7_TotalIsSum ==
    \A i \in 1..Len(Persisted) :
        Persisted[i].v.total_score =
            Persisted[i].v.attack + Persisted[i].v.defense + Persisted[i].v.accuracy

\* a record that !update has changed is persisted
C7_Witness ==
    \E i \in 1..Len(Persisted) :
        /\ Persisted[i].v.attack = 0
        /\ Persisted[i].v.defense = 7
        /\ Persisted[i].v.total_score = Persisted[i].v.accuracy + 7

\* C8 as claimed: while one invocation stands between its load and the end of
\* its save, the command of another author can be dispatched and load too.
C8_BothLoadBeforeSave ==
    \A u \in Users, v \in Users :
        ( /\ u # v
          /\ up
          /\ h[u].pc \in SavePcs
          /\ h[v].pc = "idle"
          /\ clock < MaxCmds ) => ENABLED my_stats(v, TRUE)

\* C8 as amended: no two invocations stand between load and the end of save at
\* the same time; invocations overlap only at their ctx.send.
C8_NoInterleaving ==
    \A u \in Users, v \in Users :
        u # v => ~(h[u].pc \in SavePcs /\ h[v].pc \in SavePcs)

\* two invocations overlap: one awaits its ctx.send after a successful save while
\* the other, which loaded after that save, is in save_stats
C8_Witness ==
    \E u \in Users, v \in Users :
        /\ u # v
        /\ h[u].pc = "send"
        /\ h[u].ret = "True"
        /\ h[u].cmd = "setstats"
        /\ h[v].pc \in SavePcs
        /\ DictHas(h[v].stats, u)

\* C9: a successful !update of author u leaves in u's record the character
\* class, both legendary flags and every stat not given as they were, stores
\* the stats given, and stores as total_score the sum of the three stats.
C9_UpdateFrame ==
    [][ \A u \in Users :
          (up /\ h[u].cmd = "update" /\ h[u].pc = "dump" /\ h'[u].ret = "True") =>
             /\ DictHas(load_stats(primary, TRUE), u)
             /\ DictHas(load_stats(primary', TRUE), u)
             /\ LET old  == DictGet(load_stats(primary, TRUE), u)
                    new  == DictGet(load_stats(primary', TRUE), u)
                    args == h[u].args
                IN  /\ new.attack   = IF Len(args) >= 1 THEN args[1] ELSE old.attack
                    /\ new.defense  = IF Len(args) >= 2 THEN args[2] ELSE old.defense
                    /\ new.accuracy = IF Len(args) >= 3 THEN args[3] ELSE old.accuracy
                    /\ new.character_class = old.character_class
                    /\ new.legendary_skin = old.legendary_skin
                    /\ new.legendary_familiar = old.legendary_familiar
                    /\ new.total_score = new.attack + new.defense + new.accuracy ]_vars

\* 400/350/500 then !update 420: total 1270, defense and accuracy unchanged
C9_Witness ==
    \E i \in 1..Len(Persisted) :
        /\ Persisted[i].v.attack = 420
        /\ Persisted[i].v.defense = 350
        /\ Persisted[i].v.accuracy = 500
        /\ Persisted[i].v.total_score = 1270

\* C10: author u has a record in the persisted database exactly when the last
\* of u's !setstats and !clearmystats that saved was a !setstats.
C10_Lifecycle ==
    \A u \in Users : DictHas(Persisted, u) <=> last[u] = "setstats"

\* the commands that need a record of their author
NeedRecord == {"update", "setclass", "setskin", "setfamiliar"}

\* C11: an invocation that ends in a validation error goes from dispatch
\* straight to its ctx.send: it never calls save_stats and no file changes.
\* The commands that need a record are rejected so when their author has none
\* (or the load fails), and !update when no value is given.
C11_RejectedNoSave ==
    [][ \A u \in Users :
          (h[u].pc = "idle" /\ h'[u].pc # "idle") =>
             /\ h'[u].pc \in {"send", "save"}
             /\ h'[u].pc = "send" => (files' = files /\ h'[u].ret = "")
             /\ (h'[u].cmd \in NeedRecord /\ ~DictHas(Persisted, u)) => h'[u].pc = "send"
             /\ (h'[u].cmd \in NeedRecord /\ h'[u].loaded # "ok") => h'[u].pc = "send"
             /\ (h'[u].cmd = "update" /\ h'[u].pc = "save") => h'[u].args # <<>> ]_vars

\* !update with no value by an author who has a record: rejected, record kept
C11_Witness ==
    \E u \in Users : /\ h[u].pc = "send"
                     /\ h[u].msg = "No changes provided."
                     /\ DictHas(Persisted, u)
                     /\ h[u].stats = Persisted

(***************************************************************************)
(* The read-only operations, applied to inputs drawn at the start.         *)
(***************************************************************************)
\* the bot's files and handlers, out of play while a pure operation is applied
bot == <<primary, backup, tmp, up, h, clock, last>>

BotIdle ==
    /\ primary = Absent /\ backup = Absent /\ tmp = Absent
    /\ up = TRUE
    /\ h = [u \in Users |-> Idle]
    /\ clock = 0
    /\ last = [u \in Users |-> ""]

\* a class argument arrives
NormInit ==
    /\ BotIdle
    /\ \E s \in NormInputs : fx = [op |-> "", in |-> s, out |-> <<>>]

\* normalize_class_name is called on it
CallNormalize ==
    /\ fx.op = ""
    /\ fx' = [op |-> "normalize_class_name", in |-> fx.in,
              out |-> normalize_class_name(fx.in)]
    /\ UNCHANGED bot

NormNext == CallNormalize

NormSpec == NormInit /\ [][NormNext]_vars

\* the letters of a string in lower case, its spaces and hyphens left out
LettersOf(s) == SelectSeq(Lower(s), LAMBDA c : c # " " /\ c # "-")

\* the string has both words in it, in lower case
BothWords(s, w1, w2) == Contains(Lower(s), w1) /\ Contains(Lower(s), w2)

CanonicalNames == { AVAILABLE_CLASSES[i] : i \in 1..Len(AVAILABLE_CLASSES) }

\* C13: the character_class of every record in the primary file, and of every
\* record a save is writing, is null or one of the ten canonical names.
C13_ClassCanonical ==
    /\ \A i \in 1..Len(Persisted) :
          Persisted[i].v.character_class \in CanonicalNames \cup {None}
    /\ \A u \in Users : \A i \in 1..Len(h[u].stats) :
          h[u].stats[i].v.character_class \in CanonicalNames \cup {None}

\* !setclass berserker has saved: the record holds "Berserker"
C13_Witness ==
    \E u \in Users : /\ h[u].pc = "send"
                     /\ h[u].msg = "Class set"
                     /\ DictHas(Persisted, u)
                     /\ DictGet(Persisted, u).character_class = "Berserker"

\* C14: attack, defense and accuracy of every record in the primary file are
\* non-negative.
C14_NonNegative ==
    \A i \in 1..Len(Persisted) :
        /\ Persisted[i].v.attack >= 0
        /\ Persisted[i].v.defense >= 0
        /\ Persisted[i].v.accuracy >= 0

(***************************************************************************)
(* !guildpower and !list: read-only commands of the High Council.  Their   *)
(* reply is a function of the database, of the guild's members and of the  *)
(* page argument.                                                           *)
(***************************************************************************)
\* the largest database the ranking is applied to
MaxPlayers == 31

\* user ids; a key of the database is str(id), and int(user_id) gives id back
Ids == 1..MaxPlayers

\* a database of n players: totals neither sorted nor distinct, every third
\* player with a legendary skin, every fourth with a legendary familiar
Db(n, seed) ==
    [ i \in 1..n |->
        [ k |-> i,
          v |-> [ UserData((i * seed) % 7, i % 2, 0, None, 0)
                    EXCEPT !.legendary_skin = (i % 3 = 0),
                           !.legendary_familiar = (i % 4 = 0) ] ] ]

\* the guilds: who ctx.guild.get_member finds
MemberSets == { Ids, {}, { i \in Ids : i % 3 # 0 }, Ids \ {1} }

\* the page argument as typed; "1" is the default
PageInputs ==
    { <<"1">>, <<"0">>, <<"-","1">>, <<"2">>, <<" ","3">>, <<"4">>, <<"x">> }

DigitChars == <<"0","1","2","3","4","5","6","7","8","9">>

IsDigit(c) == \E i \in 1..Len(DigitChars) : DigitChars[i] = c

DigitVal(c) == (CHOOSE i \in 1..Len(DigitChars) : DigitChars[i] = c) - 1

\* the value of a string of digits
RECURSIVE DigitsVal(_)
DigitsVal(ds) ==
    IF ds = <<>> THEN 0
    ELSE 10 * DigitsVal(SubSeq(ds, 1, Len(ds) - 1)) + DigitVal(ds[Len(ds)])

\* int(page): blanks around it dropped, an optional sign, then digits; ok is
\* FALSE where int raises ValueError
IntOf(page) ==
    LET t      == Strip(page)
        signed == t # <<>> /\ t[1] \in {"-", "+"}
        ds     == IF signed THEN Tail(t) ELSE t
    IN  IF ds # <<>> /\ \A i \in 1..Len(ds) : IsDigit(ds[i])
        THEN [ok |-> TRUE,
              val |-> IF signed /\ t[1] = "-" THEN 0 - DigitsVal(ds) ELSE DigitsVal(ds)]
        ELSE [ok |-> FALSE, val |-> 0]

Max(a, b) == IF a >= b THEN a ELSE b
Min(a, b) == IF a <= b THEN a ELSE b

\* sum(...) over a sequence of integers
RECURSIVE SumSeq(_)
SumSeq(xs) == IF xs = <<>> THEN 0 ELSE Head(xs) + SumSeq(Tail(xs))

\* sum(1 for ... if data.get(flag, False)) over a sequence of records
CountFlag(recs, flag) ==
    Len(SelectSeq(recs, LAMBDA r : IF flag = "legendary_skin"
                                   THEN r.legendary_skin ELSE r.legendary_familiar))

\* the loop at lines 483-491: the entries of the guild's members, in the
\* database's order
ActivePlayers(stats, members) ==
    LET kept == SelectSeq(stats, LAMBDA it : it.k \in members)
    IN  [ i \in 1..Len(kept) |->
            [ member |-> kept[i].k, stats |-> kept[i].v,
              total |-> calculate_total(kept[i].v) ] ]

\* list.sort(key=total, reverse=False): ascending and stable
RECURSIVE SortByTotal_NoReverse(_)
SortByTotal_NoReverse(players) ==
    IF players = <<>> THEN <<>>
    ELSE LET front == SortByTotal_NoReverse(SubSeq(players, 1, Len(players) - 1))
             x     == players[Len(players)]
             k     == Cardinality({ j \in 1..Len(front) : front[j].total <= x.total })
         IN  SubSeq(front, 1, k) \o <<x>> \o SubSeq(front, k + 1, Len(front))

\* list.sort(key=total, reverse=True): descending and stable, players of equal
\* total keep their order
RECURSIVE SortByTotal(_)
SortByTotal(players) ==
    IF players = <<>> THEN <<>>
    ELSE LET front == SortByTotal(SubSeq(players, 1, Len(players) - 1))
             x     == players[Len(players)]
             k     == Cardinality({ j \in 1..Len(front) : front[j].total >= x.total })
         IN  SubSeq(front, 1, k) \o <<x>> \o SubSeq(front, k + 1, Len(front))

PLAYERS_PER_PAGE == 15

\* total_pages with the division rounded down and one added
total_pages_PlusOne(n) == n \div PLAYERS_PER_PAGE + 1

\* total_pages, line 501
total_pages(n) == Max(1, (n + PLAYERS_PER_PAGE - 1) \div PLAYERS_PER_PAGE)

\* the reply of list_stats from load_stats on: the embed's figures and fields,
\* and the sorted active_players it was built from
ListReply(stats, members, page) ==
    IF stats = <<>> THEN [msg |-> "No statistics."]
    ELSE LET unsorted == ActivePlayers(stats, members)
         IN  IF unsorted = <<>> THEN [msg |-> "No active players."]
             ELSE LET active_players == SortByTotal(unsorted)
                      n         == Len(active_players)
                      page_num  == Max(1, Min(page, total_pages(n)))
                      start_idx == (page_num - 1) * PLAYERS_PER_PAGE
                      end_idx   == Min(start_idx + PLAYERS_PER_PAGE, n)
                      total_guild_power ==
                          SumSeq([i \in 1..n |-> active_players[i].total])
                      recs      == [i \in 1..n |-> active_players[i].stats]
                  IN  [ msg |-> "Player Ranking",
                        page_num |-> page_num,
                        total_pages |-> total_pages(n),
                        count |-> n,
                        total |-> total_guild_power,
                        avg |-> [num |-> total_guild_power, den |-> n],
                        fields |-> [ j \in 1..(end_idx - start_idx) |->
                                       [ rank |-> start_idx + j,
                                         member |-> active_players[start_idx + j].member,
                                         total |-> active_players[start_idx + j].total ] ],
                        skin_count |-> CountFlag(recs, "legendary_skin"),
                        familiar_count |-> CountFlag(recs, "legendary_familiar"),
                        active_players |-> active_players ]

\* the reply of guild_power from load_stats on
GuildReply(stats, members) ==
    IF stats = <<>> THEN [msg |-> "No statistics yet."]
    ELSE LET active == ActivePlayers(stats, members)
             total_power  == SumSeq([i \in 1..Len(active) |-> active[i].total])
             member_count == Len(active)
             values == [i \in 1..Len(stats) |-> stats[i].v]
         IN  IF member_count = 0 THEN [msg |-> "No active members."]
             ELSE [ msg |-> "Guild Power",
                    member_count |-> member_count,
                    total |-> total_power,
                    avg |-> [num |-> total_power, den |-> member_count],
                    skin_count |-> CountFlag(values, "legendary_skin"),
                    familiar_count |-> CountFlag(values, "legendary_familiar") ]

\* a database on disk, a guild, a channel and a page argument
RankInit ==
    /\ primary \in { Absent } \cup
                   { File(Dump(Db(n, seed))) : n \in 0..MaxPlayers, seed \in {1, 3} }
    /\ backup = Absent /\ tmp = Absent
    /\ up = TRUE
    /\ h = [u \in Users |-> Idle]
    /\ clock = 0
    /\ last = [u \in Users |-> ""]
    /\ \E page \in PageInputs, members \in MemberSets, dm \in BOOLEAN, readable \in BOOLEAN :
          fx = [ op |-> "",
                 in |-> [page |-> page, members |-> members, dm |-> dm,
                         readable |-> readable],
                 out |-> <<>> ]

\* !guildpower
guild_power ==
    /\ fx.op = ""
    /\ fx' = [ fx EXCEPT
                 !.op = "guildpower",
                 !.out = IF fx.in.dm THEN [msg |-> "Use on server channel."]
                         ELSE GuildReply(load_stats(primary, fx.in.readable),
                                         fx.in.members) ]
    /\ UNCHANGED bot

\* !list [page]
list_stats ==
    /\ fx.op = ""
    /\ fx' = [ fx EXCEPT
                 !.op = "list",
                 !.out = IF fx.in.dm THEN [msg |-> "Use on server channel."]
                         ELSE IF ~IntOf(fx.in.page).ok THEN [msg |-> "Invalid page number."]
                         ELSE ListReply(load_stats(primary, fx.in.readable),
                                        fx.in.members, IntOf(fx.in.page).val) ]
    /\ UNCHANGED bot

RankNext == guild_power \/ list_stats

RankSpec == RankInit /\ [][RankNext]_vars

\* what the command loaded
Loaded == load_stats(primary, fx.in.readable)

\* the stored users that pass the membership check
StoredMembers == { Loaded[i].k : i \in 1..Len(Loaded) } \cap fx.in.members

\* !list has built a ranking
Ranked == fx.op = "list" /\ fx.out.msg = "Player Ranking"

\* C15: the ranking !list builds holds exactly the stored users that pass the
\* membership check, each once, with their record and its total, and the
\* totals never rise along it.
C15_RankingSorted ==
    Ranked =>
        LET r == fx.out.active_players
        IN  /\ { r[i].member : i \in 1..Len(r) } = StoredMembers
            /\ Len(r) = Cardinality(StoredMembers)
            /\ \A i \in 1..Len(r) :
                  /\ r[i].stats = DictGet(Loaded, r[i].member)
                  /\ r[i].total = r[i].stats.attack + r[i].stats.defense
                                     + r[i].stats.accuracy
            /\ \A i \in 1..(Len(r) - 1) : r[i].total >= r[i + 1].total

\* a ranking of twenty members out of a database of thirty, totals differing
C15_Witness ==
    /\ Ranked
    /\ Len(Loaded) = 30
    /\ Len(fx.out.active_players) = 20
    /\ fx.out.active_players[1].total > fx.out.active_players[20].total

\* the last page: ceil(n / 15) without the code's arithmetic
LastPage(n) == CHOOSE k \in 1..n : (k - 1) * PLAYERS_PER_PAGE < n /\ n <= k * PLAYERS_PER_PAGE

\* the requested page clamped into [1, LastPage(n)]
Clamped(p, n) == IF p < 1 THEN 1 ELSE IF p > LastPage(n) THEN LastPage(n) ELSE p

\* the ranks !list shows on the pages q..upto, one page after the other
RECURSIVE ShownRanks(_, _, _, _)
ShownRanks(stats, members, q, upto) ==
    IF q > upto THEN <<>>
    ELSE LET fields == ListReply(stats, members, q).fields
         IN  [j \in 1..Len(fields) |-> fields[j].rank]
                \o ShownRanks(stats, members, q + 1, upto)

\* C16: over a ranking of n >= 1 players, !list shows page p' = the requested
\* page clamped into [1, ceil(n/15)], out of ceil(n/15) pages; its fields are
\* the players at the indices [(p'-1)*15, min(p'*15, n)), at least one; and
\* over the pages 1..ceil(n/15) every rank is shown exactly once.
C16_Pagination ==
    Ranked =>
        LET r  == fx.out.active_players
            n  == Len(r)
            p  == Clamped(IntOf(fx.in.page).val, n)
            lo == (p - 1) * PLAYERS_PER_PAGE
            hi == IF p * PLAYERS_PER_PAGE < n THEN p * PLAYERS_PER_PAGE ELSE n
        IN  /\ fx.out.total_pages = LastPage(n)
            /\ fx.out.page_num = p
            /\ Len(fx.out.fields) = hi - lo
            /\ hi - lo >= 1
            /\ \A j \in 1..(hi - lo) :
                  /\ fx.out.fields[j].rank = lo + j
                  /\ fx.out.fields[j].member = r[lo + j].member
            /\ LET all == ShownRanks(Loaded, fx.in.members, 1, LastPage(n))
               IN  /\ Len(all) = n
                   /\ { all[i] : i \in 1..Len(all) } = 1..n

\* page "4" asked of a ranking of thirty-one players: page 3 of 3 is shown, with
\* the one player ranked 31st
C16_Witness ==
    /\ Ranked
    /\ fx.in.page = <<"4">>
    /\ Len(fx.out.active_players) = 31
    /\ fx.out.page_num = 3
    /\ Len(fx.out.fields) = 1

\* the sum of the totals of the records of a set of stored users
RECURSIVE TotalOf(_, _)
TotalOf(stats, S) ==
    IF S = {} THEN 0
    ELSE LET k == CHOOSE x \in S : TRUE
             v == DictGet(stats, k)
         IN  v.attack + v.defense + v.accuracy + TotalOf(stats, S \ {k})

\* C19: every figure of !guildpower (members, total, average, skins,
\* familiars) and of !list (players, total, average, skins, familiars) is
\* taken over exactly the stored users that pass the membership check.
C19_AggregatesOverMembers ==
    LET skins     == { k \in StoredMembers : DictGet(Loaded, k).legendary_skin }
        familiars == { k \in StoredMembers : DictGet(Loaded, k).legendary_familiar }
        total     == TotalOf(Loaded, StoredMembers)
        count     == Cardinality(StoredMembers)
    IN  /\ (fx.op = "guildpower" /\ fx.out.msg = "Guild Power") =>
              /\ fx.out.member_count = count
              /\ fx.out.total = total
              /\ fx.out.avg = [num |-> total, den |-> count]
              /\ fx.out.skin_count = Cardinality(skins)
              /\ fx.out.familiar_count = Cardinality(familiars)
        /\ Ranked =>
              /\ fx.out.count = count
              /\ fx.out.total = total
              /\ fx.out.avg = [num |-> total, den |-> count]
              /\ fx.out.skin_count = Cardinality(skins)
              /\ fx.out.familiar_count = Cardinality(familiars)

\* the error replies of the else branches after save_stats
ErrorReplies == {"Error saving. Try again.", "Error saving.", "Error deleting."}

\* C17: the step at which save_stats fails inside a command takes the handler
\* to an error reply, never to its success message, leaves the process up and
\* the primary file as the save found it (what later loads read); and while
\* the handler sends that reply the bot takes the next command of any author
\* who has none running.
C17_SaveFailureServed ==
    [][ \A u \in Users :
          /\ (h[u].pc \in SavePcs /\ h'[u].pc = "send" /\ h'[u].ret = "False") =>
                /\ h'[u].msg \in ErrorReplies
                /\ h'[u].msg # OkMsg(h[u].cmd)
                /\ up'
                /\ primary' = h[u].pre
                /\ load_stats(primary', TRUE) = load_stats(h[u].pre, TRUE)
          /\ (h[u].pc = "send" /\ h[u].ret = "False" /\ up /\ LoopFree
                 /\ clock < MaxCmds) =>
                \A v \in Users :
                    h[v].pc = "idle" =>
                        /\ ENABLED my_stats(v, TRUE)
                        /\ ENABLED set_stats(v, 400, 350, 500, <<>>, TRUE) ]_vars

\* !setstats of u1 failed in save_stats; the next command, !mystats of u2, is
\* answered from the database as it was
C17_Witness ==
    /\ up
    /\ h["u1"].pc = "send" /\ h["u1"].cmd = "setstats" /\ h["u1"].ret = "False"
    /\ h["u2"].pc = "send" /\ h["u2"].msg = "Your Statistics"
    /\ h["u2"].stats = Persisted
    /\ Persisted = OldDb

\* a whole content of the primary file: a complete JSON text, or what the
\* file held when the bot was started (empty, or not JSON)
WholeContent(bytes) == Decodable(bytes) \/ bytes \in {<<>>, <<Junk>>}

\* C18: whenever no running save_stats is in the middle of its copy (so also
\* after a save that failed or was killed at any step), the .backup file, if
\* there is one, is a complete copy of a content of the primary file; while a
\* save is between the end of its copy and os.replace, it is the content that
\* save found; and a save that found no primary file has not touched it.
C18_BackupIsSnapshot ==
    /\ (\A u \in Users : up => h[u].pc # "copy") =>
          (backup.exists => WholeContent(backup.bytes))
    /\ \A u \in Users :
          (h[u].pc \in {"tmp_open", "dump"} /\ h[u].pre.exists) => backup = h[u].pre

\* the record of user w in a database, NoValue where it has none
RecordOf(db, w) == IF DictHas(db, w) THEN DictGet(db, w) ELSE NoValue

\* C20: while one invocation stands between its load_stats and the end of its
\* save_stats no other invocation starts, loads or saves; and a record in the
\* database, the work of commands that reported success, stays as it is for
\* every later command until a later command of its owner saves: no step but
\* the os.replace of a command of w changes or removes the record of w.
C20_SerialAndDurable ==
    [][ /\ \A u \in Users, v \in Users :
              (u # v /\ up /\ h[u].pc \in SavePcs) =>
                  /\ h'[v].pc \notin SavePcs
                  /\ h[v].pc = "idle" => h'[v].pc = "idle"
        /\ \A w \in Users :
              (DictHas(Persisted, w)
                 /\ RecordOf(load_stats(primary', TRUE), w) # RecordOf(Persisted, w)) =>
                  h[w].pc = "dump" ]_vars

\* C21: no step of a command of user u, from its dispatch to the end of its
\* save_stats, adds, changes or removes the record another user v has in the
\* primary file, whatever its load_stats returned.
C21_OtherUsersUntouched ==
    [][ \A u \in Users, v \in Users :
          (u # v /\ h'[u] # h[u] /\ h'[v] = h[v]) =>
              /\ DictHas(load_stats(primary', TRUE), v) = DictHas(Persisted, v)
              /\ RecordOf(load_stats(primary', TRUE), v) = RecordOf(Persisted, v) ]_vars

\* C22: the os.replace of a !setstats of u leaves u with exactly the record
\* built from the arguments: the three values and their sum, character_class
\* the normalised class argument (None when none was given), both legendary
\* flags false; nothing of an earlier record of u is kept.
C22_SetStatsReplaces ==
    [][ \A u \in Users :
          (h[u].pc = "dump" /\ h[u].cmd = "setstats" /\ h'[u].ret = "True") =>
              LET rec == RecordOf(load_stats(primary', TRUE), u)
                  a   == h[u].args
              IN  /\ DictHas(load_stats(primary', TRUE), u)
                  /\ rec.attack = a[1] /\ rec.defense = a[2] /\ rec.accuracy = a[3]
                  /\ rec.total_score = a[1] + a[2] + a[3]
                  /\ rec.character_class = normalize_class_name(a[4])
                  /\ a[4] = <<>> => rec.character_class = None
                  /\ rec.legendary_skin = FALSE
                  /\ rec.legendary_familiar = FALSE ]_vars

\* !setstats with no class has saved over a record that had a legendary skin
\* and the class Warlord (the .backup file still shows it): the new record has
\* neither
C22_Witness ==
    \E u \in Users :
        /\ h[u].pc = "send" /\ h[u].msg = "Statistics Saved!"
        /\ DictHas(load_stats(backup, TRUE), u)
        /\ DictGet(load_stats(backup, TRUE), u).legendary_skin
        /\ DictGet(load_stats(backup, TRUE), u).character_class = "Warlord"
        /\ DictHas(Persisted, u)
        /\ ~DictGet(Persisted, u).legendary_skin
        /\ DictGet(Persisted, u).character_class = None
====
